---- MODULE Spec2Model ----
(***************************************************************************)
(* codex-roles-cli: the Safety Boundary (retrieve.ts), the Patch           *)
(* Application Guard (patch.ts) and the Command Verification Loop          *)
(* (orchestrator.ts).  Strings are sequences of one-character strings, so  *)
(* that split, replace, startsWith, basename and extname are computed as   *)
(* the code computes them.                                                 *)
(***************************************************************************)
EXTENDS Integers, Sequences, FiniteSets, TLC

VARIABLES
    \* applyPatch (patch.ts)
    diff,           \* the unified diff text handed to applyPatch, as its lines
    options,        \* PatchOptions: allowDelete, allowedExtensions
    patchResult,    \* "none" before the call, then "applied" or the error thrown
    spawnCount,     \* number of times the external git apply process was started
    workTree,       \* paths of the working tree changed by git apply
    \* resolveSafePath (retrieve.ts)
    root,           \* the repository root handed to resolveSafePath
    inputPath,      \* the requested path
    resolveResult,  \* [state |-> "none" | "returned" | "threw", ...]
    \* verifyCommands (orchestrator.ts)
    commands,       \* plan.commands ?? []
    pc,             \* position inside verifyCommands
    attempt,        \* the loop's attempt counter
    idx,            \* index of the next command of the running pass
    lastFailure,    \* the CommandResult that failed in the first pass
    runLog,         \* every runCommand execution, in order
    fixerRequests,  \* callCodex(fixerPrompt, ...) requests made by the loop
    patchCalls,     \* applyPatch calls made by the loop
    verifyError     \* the error verifyCommands threw, "none" otherwise

\* one run of the orchestrator (run, orchestrator.ts; main, cli.ts)
VARIABLES
    stage,          \* the position of run: the step it takes next
    taskType,       \* classification.taskType, empty before classify
    plan,           \* the validated plan: search and read lists
    retrieval,      \* the keys of retrieval.searchResults and retrieval.files
    implementerRaw, \* the implementer's raw output
    blocking,       \* the code review's blocking list is non-empty
    session,        \* the in-memory SessionRecord: history (entry types), summary
    sessionFile,    \* the session file on disk
    events,         \* backend calls, patch applications, saves and writes so far
    processExit,    \* the process exit code, "none" while running
    stdout          \* what the process wrote to standard output

\* buildRepoMap (retrieve.ts)
VARIABLES
    mapDirs,        \* the directories below the root, as segment sequences
    mapFiles,       \* the files below the root, as segment sequences
    mapDepth,       \* the depth argument
    repoMap         \* the text returned, state "none" before the call

\* readFilesSafe (retrieve.ts)
VARIABLES
    readRequest,    \* the files argument
    readResult      \* the mapping returned (its keys), or the error thrown

\* two runs on the same root and session id
VARIABLES
    raceFile,       \* the session file both runs load and save
    racePc,         \* the position of each run
    raceSession     \* the in-memory SessionRecord of each run

patchVars  == <<diff, options, patchResult, spawnCount, workTree>>
pathVars   == <<root, inputPath, resolveResult>>
verifyVars == <<commands, pc, attempt, idx, lastFailure, runLog, fixerRequests,
                patchCalls, verifyError>>
runVars    == <<stage, taskType, plan, retrieval, implementerRaw, blocking, session,
                sessionFile, events, processExit, stdout>>
mapVars    == <<mapDirs, mapFiles, mapDepth, repoMap>>
readVars   == <<readRequest, readResult>>
raceVars   == <<raceFile, racePc, raceSession>>
vars == <<patchVars, pathVars, verifyVars, runVars, mapVars, readVars, raceVars>>

-----------------------------------------------------------------------------
(* Strings *)

UPPER == <<"A", "B", "C", "D", "E", "F", "G", "H", "I", "J", "K", "L", "M",
           "N", "O", "P", "Q", "R", "S", "T", "U", "V", "W", "X", "Y", "Z">>
LOWER == <<"a", "b", "c", "d", "e", "f", "g", "h", "i", "j", "k", "l", "m",
           "n", "o", "p", "q", "r", "s", "t", "u", "v", "w", "x", "y", "z">>

Range(s) == {s[i] : i \in 1..Len(s)}

Min(S) == CHOOSE x \in S : \A y \in S : x <= y
Max(S) == CHOOSE x \in S : \A y \in S : x >= y

LowerOf == [c \in Range(UPPER) |-> LOWER[CHOOSE i \in 1..Len(UPPER) : UPPER[i] = c]]

LowerChar(c) == IF c \in DOMAIN LowerOf THEN LowerOf[c] ELSE c

\* String.prototype.toLowerCase
toLowerCase(s) == [i \in 1..Len(s) |-> LowerChar(s[i])]

\* String.prototype.indexOf, 1-based; 0 when p does not occur in s
indexOf(s, p) ==
    LET I == {i \in 1..(Len(s) - Len(p) + 1) : SubSeq(s, i, i + Len(p) - 1) = p}
    IN  IF I = {} THEN 0 ELSE Min(I)

lastIndexOf(s, p) ==
    LET I == {i \in 1..(Len(s) - Len(p) + 1) : SubSeq(s, i, i + Len(p) - 1) = p}
    IN  IF I = {} THEN 0 ELSE Max(I)

\* String.prototype.includes
includes(s, p) == indexOf(s, p) # 0

\* String.prototype.startsWith / endsWith
startsWith(s, p) == Len(p) <= Len(s) /\ SubSeq(s, 1, Len(p)) = p
endsWith(s, p) == Len(p) <= Len(s) /\ SubSeq(s, Len(s) - Len(p) + 1, Len(s)) = p

\* String.prototype.replace(p, r) with a string pattern: the first occurrence only
replaceFirst(s, p, r) ==
    LET i == indexOf(s, p)
    IN  IF i = 0 THEN s
        ELSE SubSeq(s, 1, i - 1) \o r \o SubSeq(s, i + Len(p), Len(s))

\* String.prototype.split(c) for a one-character separator: empty pieces are kept
RECURSIVE splitFrom(_, _, _, _, _)
splitFrom(s, c, i, piece, acc) ==
    IF i > Len(s) THEN Append(acc, piece)
    ELSE IF s[i] = c THEN splitFrom(s, c, i + 1, <<>>, Append(acc, piece))
    ELSE splitFrom(s, c, i + 1, Append(piece, s[i]), acc)

split(s, c) == splitFrom(s, c, 1, <<>>, <<>>)

\* Array.prototype.join(sep)
RECURSIVE join(_, _)
join(parts, sep) ==
    IF Len(parts) = 0 THEN <<>>
    ELSE IF Len(parts) = 1 THEN parts[1]
    ELSE parts[1] \o sep \o join(Tail(parts), sep)

SLASH == <<"/">>

-----------------------------------------------------------------------------
(* node:path (POSIX) *)

RECURSIVE stripTrailingSlashes(_)
stripTrailingSlashes(p) ==
    IF Len(p) > 0 /\ p[Len(p)] = "/" THEN stripTrailingSlashes(SubSeq(p, 1, Len(p) - 1))
    ELSE p

\* path.basename: the last portion of the path, trailing separators ignored
basename(p) ==
    LET q == stripTrailingSlashes(p)
        i == lastIndexOf(q, SLASH)
    IN  SubSeq(q, i + 1, Len(q))

\* path.extname: from the last "." of the basename to its end; "" when there is
\* no "." or the only "." is the basename's first character, or for ".."
extname(p) ==
    LET b == basename(p)
        i == lastIndexOf(b, <<".">>)
    IN  IF i <= 1 \/ b = <<".", ".">> THEN <<>> ELSE SubSeq(b, i, Len(b))

isAbsolute(p) == Len(p) > 0 /\ p[1] = "/"

\* normalizeString: "." and empty segments are dropped, ".." removes the
\* segment before it and never climbs above "/"
RECURSIVE normalizeSegments(_, _)
normalizeSegments(segs, acc) ==
    IF Len(segs) = 0 THEN acc
    ELSE LET s == segs[1]
         IN  IF s = <<>> \/ s = <<".">> THEN normalizeSegments(Tail(segs), acc)
             ELSE IF s = <<".", ".">>
                  THEN normalizeSegments(Tail(segs),
                           IF Len(acc) = 0 THEN acc ELSE SubSeq(acc, 1, Len(acc) - 1))
                  ELSE normalizeSegments(Tail(segs), Append(acc, s))

\* the segments of the absolute path path.resolve(from, to); both arguments
\* absolute or relative to an absolute `from`
resolvedSegments(from, to) ==
    IF isAbsolute(to) THEN normalizeSegments(split(to, "/"), <<>>)
    ELSE normalizeSegments(split(from \o SLASH \o to, "/"), <<>>)

\* path.resolve(from, to) for an absolute `from`
resolve(from, to) == SLASH \o join(resolvedSegments(from, to), SLASH)

-----------------------------------------------------------------------------
(* retrieve.ts: the Safety Boundary *)

DEFAULT_IGNORES == <<
    <<"n", "o", "d", "e", "_", "m", "o", "d", "u", "l", "e", "s">>,
    <<".", "g", "i", "t">>,
    <<"d", "i", "s", "t">>,
    <<"b", "u", "i", "l", "d">>,
    <<".", "n", "e", "x", "t">>,
    <<"D", "e", "r", "i", "v", "e", "d", "D", "a", "t", "a">>,
    <<"d", "e", "r", "i", "v", "e", "d", " ", "d", "a", "t", "a">>,
    <<"v", "e", "n", "d", "o", "r">> >>

SENSITIVE_EXTENSIONS == {
    <<".", "e", "n", "v">>,
    <<".", "k", "e", "y">>,
    <<".", "p", "e", "m">>,
    <<".", "c", "r", "t">>,
    <<".", "p", "1", "2">>,
    <<".", "p", "f", "x">>,
    <<".", "c", "e", "r">> }

SENSITIVE_FILENAMES == {
    <<".", "e", "n", "v">>,
    <<".", "e", "n", "v", ".", "l", "o", "c", "a", "l">>,
    <<".", "e", "n", "v", ".", "p", "r", "o", "d", "u", "c", "t", "i", "o", "n">>,
    <<".", "e", "n", "v", ".", "d", "e", "v", "e", "l", "o", "p", "m", "e", "n", "t">> }

SECRET == <<"s", "e", "c", "r", "e", "t">>
CERTIFICATE == <<"c", "e", "r", "t", "i", "f", "i", "c", "a", "t", "e">>
PRIVATE == <<"p", "r", "i", "v", "a", "t", "e">>

isSensitivePath(resolvedPath) ==
    LET base == toLowerCase(basename(resolvedPath))
    IN  IF base \in SENSITIVE_FILENAMES THEN TRUE
        ELSE IF extname(base) \in SENSITIVE_EXTENSIONS THEN TRUE
        ELSE includes(base, SECRET) \/ includes(base, CERTIFICATE) \/ includes(base, PRIVATE)

IgnoresLower == {toLowerCase(DEFAULT_IGNORES[k]) : k \in 1..Len(DEFAULT_IGNORES)}

containsIgnoredSegment(resolvedPath) ==
    LET parts == split(resolvedPath, "/")
    IN  \E i \in 1..Len(parts) : toLowerCase(parts[i]) \in IgnoresLower

\* resolveSafePath: the path returned, or the error thrown
resolveSafePath(rootDir, input) ==
    LET resolved == resolve(rootDir, input)
    IN  IF ~startsWith(resolved, rootDir)
        THEN [state |-> "threw", error |-> "outside repo", path |-> <<>>]
        ELSE IF isSensitivePath(resolved)
        THEN [state |-> "threw", error |-> "sensitive path", path |-> <<>>]
        ELSE IF containsIgnoredSegment(resolved)
        THEN [state |-> "threw", error |-> "ignored path", path |-> <<>>]
        ELSE [state |-> "returned", error |-> "none", path |-> resolved]

-----------------------------------------------------------------------------
(* patch.ts: the Patch Application Guard *)

HEADER_PREFIX == <<"d", "i", "f", "f", " ", "-", "-", "g", "i", "t", " ", "a", "/">>
HEADER_MIDDLE == <<" ", "b", "/">>
DELETE_MARKER == <<"d", "e", "l", "e", "t", "e", "d", " ", "f", "i", "l", "e", " ",
                   "m", "o", "d", "e">>
DOC_EXTENSIONS == << <<".", "m", "d">>, <<".", "m", "d", "x">> >>

\* one line against /^diff --git a\/(.+?) b\/(.+)$/: the prefix, at least one
\* character, " b/", at least one character
matchesHeader(line) ==
    /\ startsWith(line, HEADER_PREFIX)
    /\ \E i \in (Len(HEADER_PREFIX) + 2)..(Len(line) - Len(HEADER_MIDDLE)) :
           SubSeq(line, i, i + Len(HEADER_MIDDLE) - 1) = HEADER_MIDDLE

\* parts[2]?.replace("b/", "") ?? "" of line.split(" ")
headerFile(line) ==
    LET parts == split(line, " ")
    IN  IF Len(parts) >= 3 THEN replaceFirst(parts[3], <<"b", "/">>, <<>>) ELSE <<>>

nonEmpty(s) == s # <<>>

\* a diff text is the sequence of its lines (the text split at "\n"): the
\* regular expression has the m flag and matches line by line
extractFilesFromDiff(d) ==
    LET matches == SelectSeq(d, matchesHeader)
        files == [k \in 1..Len(matches) |-> headerFile(matches[k])]
    IN  SelectSeq(files, nonEmpty)

\* allowedExtensions && !allowedExtensions.some((ext) => file.endsWith(ext))
notAllowed(file, allowedExtensions) ==
    /\ allowedExtensions.defined
    /\ ~\E k \in 1..Len(allowedExtensions.list) : endsWith(file, allowedExtensions.list[k])

\* the per-file loop of applyPatch: the first error it throws, "ok" otherwise
RECURSIVE checkFiles(_, _)
checkFiles(files, allowedExtensions) ==
    IF Len(files) = 0 THEN "ok"
    ELSE IF isSensitivePath(files[1]) THEN "SensitivePath"
    ELSE IF containsIgnoredSegment(files[1]) THEN "IgnoredPath"
    ELSE IF notAllowed(files[1], allowedExtensions) THEN "NonAllowedFile"
    ELSE checkFiles(Tail(files), allowedExtensions)

\* !allowDelete && diff.includes("deleted file mode"): the marker holds no
\* "\n", so it occurs in the text exactly when it occurs in one of its lines
deleteRefused(d, allowDelete) ==
    ~allowDelete /\ \E k \in 1..Len(d) : includes(d[k], DELETE_MARKER)

\* applyViaStdin: git apply is spawned; close with code 0 resolves, any other
\* close code or the child's error event rejects
GitOutcomes == {"close:0", "close:1", "error"}

applyViaStdin(outcome) ==
    IF outcome = "close:0" THEN [error |-> "none", spawned |-> TRUE, applied |-> TRUE]
    ELSE [error |-> "PatchApplyFailure", spawned |-> TRUE, applied |-> FALSE]

Rejected(e) == [error |-> e, spawned |-> FALSE, applied |-> FALSE]

\* a variant of applyPatch that starts git apply before the deletion check
applyPatch_SpawnBeforeDeleteCheck(d, o, outcome) ==
    LET files == extractFilesFromDiff(d)
    IN  IF Len(files) = 0 THEN Rejected("NoFilesFound")
        ELSE IF checkFiles(files, o.allowedExtensions) # "ok"
        THEN Rejected(checkFiles(files, o.allowedExtensions))
        ELSE IF applyViaStdin(outcome).error # "none" THEN applyViaStdin(outcome)
        ELSE IF deleteRefused(d, o.allowDelete)
        THEN [error |-> "DeleteRefused", spawned |-> TRUE, applied |-> TRUE]
        ELSE applyViaStdin(outcome)

\* a variant of applyPatch without the deletion check
applyPatch_NoDeleteCheck(d, o, outcome) ==
    LET files == extractFilesFromDiff(d)
    IN  IF Len(files) = 0 THEN Rejected("NoFilesFound")
        ELSE IF checkFiles(files, o.allowedExtensions) # "ok"
        THEN Rejected(checkFiles(files, o.allowedExtensions))
        ELSE applyViaStdin(outcome)

\* a variant of applyPatch without the empty-file-list check
applyPatch_NoEmptyCheck(d, o, outcome) ==
    LET files == extractFilesFromDiff(d)
    IN  IF checkFiles(files, o.allowedExtensions) # "ok"
        THEN Rejected(checkFiles(files, o.allowedExtensions))
        ELSE IF deleteRefused(d, o.allowDelete) THEN Rejected("DeleteRefused")
        ELSE applyViaStdin(outcome)

\* applyPatch(diff, options): what it throws, whether it started git apply and
\* whether the diff was applied, given the outcome of the external process
applyPatch(d, o, outcome) ==
    LET files == extractFilesFromDiff(d)
    IN  IF Len(files) = 0 THEN Rejected("NoFilesFound")
        ELSE IF checkFiles(files, o.allowedExtensions) # "ok"
        THEN Rejected(checkFiles(files, o.allowedExtensions))
        ELSE IF deleteRefused(d, o.allowDelete) THEN Rejected("DeleteRefused")
        ELSE applyViaStdin(outcome)

\* the files git apply changes for a diff: the <path> of every header line
\* "diff --git a/<path> b/<path>"
gitTargets(d) ==
    LET n(line) == (Len(line) - Len(HEADER_PREFIX) - Len(HEADER_MIDDLE)) \div 2
        a(line) == SubSeq(line, Len(HEADER_PREFIX) + 1, Len(HEADER_PREFIX) + n(line))
    IN  {a(d[k]) : k \in {j \in 1..Len(d) :
            /\ startsWith(d[j], HEADER_PREFIX)
            /\ n(d[j]) >= 1
            /\ d[j] = HEADER_PREFIX \o a(d[j]) \o HEADER_MIDDLE \o a(d[j])}}

\* the effect of one applyPatch call on the patch state
PatchEffect(d, o, outcome) ==
    LET r == applyPatch(d, o, outcome)
    IN  /\ diff' = d
        /\ options' = o
        /\ patchResult' = IF r.error = "none" THEN "applied" ELSE r.error
        /\ spawnCount' = spawnCount + (IF r.spawned THEN 1 ELSE 0)
        /\ workTree' = IF r.applied THEN workTree \cup gitTargets(d) ELSE workTree

(* the diffs and options applyPatch is checked on *)

MaxDiffFiles == 2

Str_src == <<"s", "r", "c">>
Str_sub == <<"s", "u", "b">>
Str_node_modules == <<"n", "o", "d", "e", "_", "m", "o", "d", "u", "l", "e", "s">>
Str_Vendor == <<"V", "e", "n", "d", "o", "r">>
Str_a_ts == <<"a", ".", "t", "s">>
Str_README_md == <<"R", "E", "A", "D", "M", "E", ".", "m", "d">>
Str_env_local == <<".", "e", "n", "v", ".", "l", "o", "c", "a", "l">>
Str_Secret_txt == <<"S", "e", "c", "r", "e", "t", ".", "t", "x", "t">>
Str_my_docs == <<"m", "y", " ", "d", "o", "c", "s">>

Path(segments) == join(segments, SLASH)

\* clean, sensitive and ignored targets at directory depths 0, 1 and 2
PatchPaths == {
    Str_a_ts,
    Str_README_md,
    Str_env_local,
    Path(<<Str_src, Str_a_ts>>),
    Path(<<Str_src, Str_env_local>>),
    Path(<<Str_sub, Str_env_local>>),
    Path(<<Str_src, Str_Secret_txt>>),
    Path(<<Str_node_modules, Str_a_ts>>),
    Path(<<Str_Vendor, Str_a_ts>>),
    Path(<<Str_sub, Str_node_modules, Str_a_ts>>),
    Path(<<Str_my_docs, Str_README_md>>) }

HeaderLine(p) == HEADER_PREFIX \o p \o HEADER_MIDDLE \o p
DeletedLine == DELETE_MARKER \o <<" ", "1", "0", "0", "6", "4", "4">>
ContentLine == <<"+", "f", "i", "x">>

\* texts without any git header line
HeaderlessDiffs == {
    <<>>,
    <<ContentLine>>,
    <<DeletedLine, ContentLine>>,
    <<HEADER_PREFIX \o Str_a_ts>>,
    << <<"-", "-", "-", " ", "a", "/">> \o Str_a_ts,
       <<"+", "+", "+", " ", "b", "/">> \o Str_a_ts,
       ContentLine >> }

FileLists == UNION { [1..n -> PatchPaths] : n \in 1..MaxDiffFiles }

DiffOf(files, deleting) ==
    [k \in 1..Len(files) |-> HeaderLine(files[k])]
        \o (IF deleting THEN <<DeletedLine>> ELSE <<>>) \o <<ContentLine>>

PatchDiffs == HeaderlessDiffs \cup { DiffOf(f, del) : f \in FileLists, del \in BOOLEAN }

NoExtensions == [defined |-> FALSE, list |-> <<>>]
PatchOptionSet == { [allowDelete |-> ad, allowedExtensions |-> ae] :
                    ad \in BOOLEAN,
                    ae \in { NoExtensions, [defined |-> TRUE, list |-> DOC_EXTENSIONS] } }
DefaultOptions == [allowDelete |-> FALSE, allowedExtensions |-> NoExtensions]
\* { root, allowedExtensions: DOC_EXTENSIONS }, the options of the docs.write branch
DocsOptions == [allowDelete |-> FALSE,
                allowedExtensions |-> [defined |-> TRUE, list |-> DOC_EXTENSIONS]]

-----------------------------------------------------------------------------
(* orchestrator.ts: the Command Verification Loop *)

MaxAttempts == 3
MaxCmds == 3

\* runCommand resolves with exit code 0 or with a non-zero exit code
ExitCodes == {0, 1}

\* result.exitCode !== 0, in verifyCommands and in runAll
commandFailed_Always(exitCode) == TRUE
commandFailed(exitCode) == exitCode # 0

\* while (attempt < 3)
loopContinues_OneMore(a) == a <= MaxAttempts
loopContinues(a) == a < MaxAttempts

Str_w == <<"w">>
Str_repo == <<"r", "e", "p", "o">>
Str_gone_ts == <<"g", "o", "n", "e", ".", "t", "s">>

\* the root verifyCommands runs in, and the files that exist under it
VerifyRoot == SLASH \o Path(<<Str_w, Str_repo>>)
ExistingFiles == { Path(<<Str_src, Str_a_ts>>), Str_env_local }

\* extractFilePaths of a failed command's output: the path-like tokens it names
CandidateFiles == { Path(<<Str_src, Str_a_ts>>), Path(<<Str_src, Str_gone_ts>>),
                    Str_env_local }

\* files.filter(...): the candidates resolveSafePath accepts
safeFiles(files) == {f \in files : resolveSafePath(VerifyRoot, f).state = "returned"}

\* a variant of contextReadable that skips the files that cannot be read
contextReadable_Always(files) == TRUE

\* readFilesSafe(root, safeFiles) resolves when every file can be read
contextReadable(files) == safeFiles(files) \subseteq ExistingFiles

\* the fix patches the reasoning backend may answer with
FixDiffs == {
    DiffOf(<<Path(<<Str_src, Str_a_ts>>)>>, FALSE),
    DiffOf(<<Path(<<Str_src, Str_a_ts>>)>>, TRUE),
    DiffOf(<<Str_env_local>>, FALSE),
    <<ContentLine>> }

NoFailure == [index |-> 0, files |-> {}]

LogEntry(i, exitCode, pass) ==
    [index |-> i, exitCode |-> exitCode, pass |-> pass, attempt |-> attempt]

\* the head of the while loop: the next attempt, or the final throw
NextAttempt ==
    IF loopContinues(attempt)
    THEN /\ attempt' = attempt + 1
         /\ pc' = "firstPass"
         /\ idx' = 1
         /\ verifyError' = verifyError
    ELSE /\ attempt' = attempt
         /\ pc' = "threw"
         /\ idx' = 0
         /\ verifyError' = "VerificationFailed"

\* a variant of Enter without the early return on an empty command list
Enter_NoEmptyCheck ==
    /\ pc = "call"
    /\ NextAttempt
    /\ UNCHANGED <<commands, lastFailure, runLog, fixerRequests, patchCalls>>
    /\ UNCHANGED <<patchVars, pathVars>>

\* verifyCommands is called: an empty command list returns at once
Enter ==
    /\ pc = "call"
    /\ IF Len(commands) = 0
       THEN pc' = "returned" /\ UNCHANGED <<attempt, idx, verifyError>>
       ELSE NextAttempt
    /\ UNCHANGED <<commands, lastFailure, runLog, fixerRequests, patchCalls>>
    /\ UNCHANGED <<patchVars, pathVars>>

\* one runCommand of the attempt's for loop
RunFirstPass ==
    /\ pc = "firstPass"
    /\ \E exitCode \in ExitCodes, files \in SUBSET CandidateFiles :
        /\ runLog' = Append(runLog, LogEntry(idx, exitCode, "first"))
        /\ IF commandFailed(exitCode)
           THEN /\ pc' = "fix"
                /\ lastFailure' = [index |-> idx, files |-> files]
                /\ idx' = idx
           ELSE /\ files = {}
                /\ lastFailure' = lastFailure
                /\ IF idx = Len(commands)
                   THEN pc' = "returned" /\ idx' = 0
                   ELSE pc' = "firstPass" /\ idx' = idx + 1
    /\ UNCHANGED <<commands, attempt, fixerRequests, patchCalls, verifyError>>
    /\ UNCHANGED <<patchVars, pathVars>>

\* readFilesSafe throws on a surviving candidate that cannot be read
FixContextFails ==
    /\ pc = "fix"
    /\ ~contextReadable(lastFailure.files)
    /\ pc' = "threw"
    /\ verifyError' = "ReadError"
    /\ lastFailure' = NoFailure
    /\ UNCHANGED <<commands, attempt, idx, runLog, fixerRequests, patchCalls>>
    /\ UNCHANGED <<patchVars, pathVars>>

\* readPrompt("fixer.code.txt") finds no prompt file
FixPromptMissing ==
    /\ pc = "fix"
    /\ contextReadable(lastFailure.files)
    /\ pc' = "threw"
    /\ verifyError' = "PromptNotFound"
    /\ lastFailure' = NoFailure
    /\ UNCHANGED <<commands, attempt, idx, runLog, fixerRequests, patchCalls>>
    /\ UNCHANGED <<patchVars, pathVars>>

\* callCodex(fixerPrompt, ...) fails
FixBackendFails ==
    /\ pc = "fix"
    /\ contextReadable(lastFailure.files)
    /\ fixerRequests' = fixerRequests + 1
    /\ pc' = "threw"
    /\ verifyError' = "BackendFailure"
    /\ lastFailure' = NoFailure
    /\ UNCHANGED <<commands, attempt, idx, runLog, patchCalls>>
    /\ UNCHANGED <<patchVars, pathVars>>

\* a variant of FixApply whose recheck resumes at the command that failed
FixApply_RecheckFromFailed ==
    /\ pc = "fix"
    /\ contextReadable(lastFailure.files)
    /\ \E fixRaw \in FixDiffs, outcome \in GitOutcomes :
        /\ PatchEffect(fixRaw, DefaultOptions, outcome)
        /\ IF applyPatch(fixRaw, DefaultOptions, outcome).error = "none"
           THEN pc' = "recheck" /\ idx' = idx /\ verifyError' = verifyError
           ELSE /\ pc' = "threw" /\ idx' = idx
                /\ verifyError' = applyPatch(fixRaw, DefaultOptions, outcome).error
    /\ fixerRequests' = fixerRequests + 1
    /\ patchCalls' = patchCalls + 1
    /\ lastFailure' = NoFailure
    /\ UNCHANGED <<commands, attempt, runLog>>
    /\ UNCHANGED pathVars

\* a variant of FixApply that catches a throw of applyPatch and goes on to the
\* next attempt
FixApply_CatchesPatchError ==
    /\ pc = "fix"
    /\ contextReadable(lastFailure.files)
    /\ \E fixRaw \in FixDiffs, outcome \in GitOutcomes :
        /\ PatchEffect(fixRaw, DefaultOptions, outcome)
        /\ IF applyPatch(fixRaw, DefaultOptions, outcome).error = "none"
           THEN pc' = "recheck" /\ idx' = 1 /\ UNCHANGED <<attempt, verifyError>>
           ELSE NextAttempt
    /\ fixerRequests' = fixerRequests + 1
    /\ patchCalls' = patchCalls + 1
    /\ lastFailure' = NoFailure
    /\ UNCHANGED <<commands, runLog>>
    /\ UNCHANGED pathVars

\* the fixer answers and its patch goes through applyPatch; a throw of applyPatch
\* leaves verifyCommands, otherwise the for loop breaks and runAll starts
FixApply ==
    /\ pc = "fix"
    /\ contextReadable(lastFailure.files)
    /\ \E fixRaw \in FixDiffs, outcome \in GitOutcomes :
        /\ PatchEffect(fixRaw, DefaultOptions, outcome)
        /\ IF applyPatch(fixRaw, DefaultOptions, outcome).error = "none"
           THEN pc' = "recheck" /\ idx' = 1 /\ verifyError' = verifyError
           ELSE /\ pc' = "threw" /\ idx' = idx
                /\ verifyError' = applyPatch(fixRaw, DefaultOptions, outcome).error
    /\ fixerRequests' = fixerRequests + 1
    /\ patchCalls' = patchCalls + 1
    /\ lastFailure' = NoFailure
    /\ UNCHANGED <<commands, attempt, runLog>>
    /\ UNCHANGED pathVars

\* a variant of RunRecheck that goes on to the next attempt after a clean recheck
RunRecheck_IgnoresSuccess ==
    /\ pc = "recheck"
    /\ \E exitCode \in ExitCodes :
        /\ runLog' = Append(runLog, LogEntry(idx, exitCode, "recheck"))
        /\ IF commandFailed(exitCode) \/ idx = Len(commands)
           THEN NextAttempt
           ELSE /\ pc' = "recheck" /\ idx' = idx + 1
                /\ UNCHANGED <<attempt, verifyError>>
    /\ UNCHANGED <<commands, lastFailure, fixerRequests, patchCalls>>
    /\ UNCHANGED <<patchVars, pathVars>>

\* one runCommand of runAll; a failure ends the attempt, a clean pass returns
RunRecheck ==
    /\ pc = "recheck"
    /\ \E exitCode \in ExitCodes :
        /\ runLog' = Append(runLog, LogEntry(idx, exitCode, "recheck"))
        /\ IF commandFailed(exitCode)
           THEN NextAttempt
           ELSE IF idx = Len(commands)
                THEN pc' = "returned" /\ idx' = 0 /\ UNCHANGED <<attempt, verifyError>>
                ELSE pc' = "recheck" /\ idx' = idx + 1 /\ UNCHANGED <<attempt, verifyError>>
    /\ UNCHANGED <<commands, lastFailure, fixerRequests, patchCalls>>
    /\ UNCHANGED <<patchVars, pathVars>>

-----------------------------------------------------------------------------
(* initial values of the parts a specification does not exercise *)

PatchIdle ==
    /\ diff = <<>>
    /\ options = DefaultOptions
    /\ patchResult = "none"
    /\ spawnCount = 0
    /\ workTree = {}

PathIdle ==
    /\ root = SLASH
    /\ inputPath = <<>>
    /\ resolveResult = [state |-> "none", error |-> "none", path |-> <<>>]

VerifyIdle ==
    /\ commands = <<>>
    /\ pc = "idle"
    /\ attempt = 0
    /\ idx = 0
    /\ lastFailure = NoFailure
    /\ runLog = <<>>
    /\ fixerRequests = 0
    /\ patchCalls = 0
    /\ verifyError = "none"

\* no classification yet
NoType == <<>>

NoPlan == [search |-> <<>>, read |-> <<>>]

NoRetrieval == [searchResults |-> {}, files |-> {}]

\* loadSession on a missing file: an empty history and an empty summary
FreshSession == [history |-> <<>>, summary |-> ""]

AbsentFile == [exists |-> FALSE, history |-> <<>>, summary |-> ""]

RunIdle ==
    /\ stage = "idle"
    /\ taskType = NoType
    /\ plan = NoPlan
    /\ retrieval = NoRetrieval
    /\ implementerRaw = <<>>
    /\ blocking = FALSE
    /\ session = FreshSession
    /\ sessionFile = AbsentFile
    /\ events = <<>>
    /\ processExit = "none"
    /\ stdout = <<>>

MapIdle ==
    /\ mapDirs = {}
    /\ mapFiles = {}
    /\ mapDepth = 0
    /\ repoMap = [state |-> "none", text |-> <<>>]

RaceRuns == {"A", "B"}

ReadIdle ==
    /\ readRequest = <<>>
    /\ readResult = [state |-> "none", error |-> "none", keys |-> {}]

RaceIdle ==
    /\ raceFile = AbsentFile
    /\ racePc = [r \in RaceRuns |-> "idle"]
    /\ raceSession = [r \in RaceRuns |-> FreshSession]

\* the initial values of everything but the patch, path, verify and run state
RestIdle == MapIdle /\ ReadIdle /\ RaceIdle

\* what a step outside the orchestrator and buildRepoMap leaves alone
OtherIdle == UNCHANGED <<runVars, mapVars, readVars, raceVars>>

-----------------------------------------------------------------------------
(* SpecPatch: one applyPatch call on every diff and option set *)

InitPatch ==
    /\ diff \in PatchDiffs
    /\ options \in PatchOptionSet
    /\ patchResult = "none"
    /\ spawnCount = 0
    /\ workTree = {}
    /\ PathIdle
    /\ VerifyIdle
    /\ RunIdle
    /\ RestIdle

ApplyPatch ==
    /\ patchResult = "none"
    /\ \E outcome \in GitOutcomes : PatchEffect(diff, options, outcome)
    /\ UNCHANGED <<pathVars, verifyVars, runVars, mapVars, readVars, raceVars>>

NextPatch == ApplyPatch

SpecPatch == InitPatch /\ [][NextPatch]_vars

(* Claims about applyPatch, checked under SpecPatch *)

GuardErrors == {"NoFilesFound", "SensitivePath", "IgnoredPath", "NonAllowedFile",
                "DeleteRefused"}

HasDeleteMarker(d) == \E k \in 1..Len(d) : includes(d[k], DELETE_MARKER)

\* a line of the form "diff --git a/<path> b/<path>" with non-empty paths
IsGitHeader(line) ==
    \E i \in 1..Len(line) : \E j \in i..Len(line) :
        /\ i >= 1 /\ j - i + 1 >= 1
        /\ j + Len(HEADER_MIDDLE) + 1 <= Len(line)
        /\ SubSeq(line, 1, j + Len(HEADER_MIDDLE)) =
               HEADER_PREFIX \o SubSeq(line, i, j) \o HEADER_MIDDLE

\* C4: a diff that applyPatch rejects by one of its structural checks (empty
\* file list, sensitive target, ignored target, non-allowed extension, deletion
\* marker without allowDelete) never starts the external git apply process and
\* leaves the working tree unchanged.
C4_RejectedNeverSpawns ==
    patchResult \in GuardErrors => (spawnCount = 0 /\ workTree = {})

\* C4 witness: a multi-file diff whose per-file checks pass was rejected for its
\* deletion marker, the last check before the external process.
C4_Witness ==
    /\ patchResult = "DeleteRefused"
    /\ Len(extractFilesFromDiff(diff)) >= 2
    /\ spawnCount = 0

\* C5 (as claimed): whenever a file changed by the diff has a sensitive name
\* (sensitive filename, sensitive extension, or "secret"/"certificate"/"private"
\* in the filename), at any directory depth, applyPatch rejects the diff and
\* does not apply it.
C5_SensitiveTargetsRejected ==
    (patchResult # "none" /\ \E f \in gitTargets(diff) : isSensitivePath(f))
        => (patchResult \in GuardErrors /\ spawnCount = 0 /\ workTree = {})

\* C6 (as claimed): whenever a file changed by the diff has a path segment that
\* case-insensitively equals a member of the ignore set, applyPatch rejects the
\* diff and does not apply it, whatever the other segments are.
C6_IgnoredTargetsRejected ==
    (patchResult # "none" /\ \E f \in gitTargets(diff) : containsIgnoredSegment(f))
        => (patchResult \in GuardErrors /\ spawnCount = 0 /\ workTree = {})

\* C9: with allowDelete false every diff holding a "deleted file mode" marker is
\* rejected without starting git apply, even when every per-file check passes;
\* with allowDelete true a deleting diff that passes the other checks is handed
\* to git apply.
C9_DeletePolicy ==
    (patchResult # "none" /\ HasDeleteMarker(diff)) =>
        /\ ~options.allowDelete => (patchResult \in GuardErrors /\ spawnCount = 0)
        /\ ( /\ options.allowDelete
             /\ Len(extractFilesFromDiff(diff)) > 0
             /\ checkFiles(extractFilesFromDiff(diff), options.allowedExtensions) = "ok" )
               => (spawnCount = 1 /\ patchResult \in {"applied", "PatchApplyFailure"})

\* C9 witness: a deleting diff whose per-file checks all pass was refused with
\* allowDelete false.
C9_Witness ==
    /\ patchResult = "DeleteRefused"
    /\ ~options.allowDelete
    /\ checkFiles(extractFilesFromDiff(diff), options.allowedExtensions) = "ok"

\* C10: a diff without any "diff --git a/<path> b/<path>" header line is
\* rejected with the no-files-found error and is never passed to git apply.
C10_HeaderlessRejected ==
    (patchResult # "none" /\ ~\E k \in 1..Len(diff) : IsGitHeader(diff[k]))
        => (patchResult = "NoFilesFound" /\ spawnCount = 0 /\ workTree = {})

\* C10 witness: a non-empty text without a git header (a plain ---/+++ diff) was
\* rejected with no files found.
C10_Witness ==
    /\ patchResult = "NoFilesFound"
    /\ Len(diff) >= 3
    /\ spawnCount = 0

HasDocExtension(f) == \E k \in 1..Len(DOC_EXTENSIONS) : endsWith(f, DOC_EXTENSIONS[k])

\* C11 (as claimed): with the docs.write options (allowlist .md, .mdx) a patch
\* whose changed files all end in an allowed extension is not refused by the
\* allowlist, and a patch changing a file with any other extension is rejected
\* and nothing is applied, with the non-allowed-file error unless a sensitive
\* or ignored target is refused first.
C11_DocsAllowlist ==
    (patchResult # "none" /\ options = DocsOptions) =>
        /\ (gitTargets(diff) # {} /\ \A f \in gitTargets(diff) : HasDocExtension(f))
               => patchResult # "NonAllowedFile"
        /\ (\E f \in gitTargets(diff) : ~HasDocExtension(f)) =>
               /\ patchResult \in GuardErrors /\ spawnCount = 0 /\ workTree = {}
               /\ (\A f \in gitTargets(diff) :
                       ~isSensitivePath(f) /\ ~containsIgnoredSegment(f))
                      => patchResult = "NonAllowedFile"

-----------------------------------------------------------------------------
(* Spec: one verifyCommands call on every command list *)

Init ==
    /\ commands \in { [i \in 1..n |-> i] : n \in 0..MaxCmds }
    /\ pc = "call"
    /\ attempt = 0
    /\ idx = 0
    /\ lastFailure = NoFailure
    /\ runLog = <<>>
    /\ fixerRequests = 0
    /\ patchCalls = 0
    /\ verifyError = "none"
    /\ PatchIdle
    /\ PathIdle
    /\ RunIdle
    /\ RestIdle

Next ==
    \/ Enter /\ OtherIdle
    \/ RunFirstPass /\ OtherIdle
    \/ FixContextFails /\ OtherIdle
    \/ FixPromptMissing /\ OtherIdle
    \/ FixBackendFails /\ OtherIdle
    \/ FixApply /\ OtherIdle
    \/ RunRecheck /\ OtherIdle

Spec == Init /\ [][Next]_vars

(* Claims about verifyCommands, checked under Spec *)

\* errors thrown out of the failure branch (context, prompt, backend, applyPatch)
FixStepErrors == {"ReadError", "PromptNotFound", "BackendFailure", "PatchApplyFailure"}
                     \cup GuardErrors

Executions(i) == SelectSeq(runLog, LAMBDA e : e.index = i)

\* the first command has exited non-zero on every execution so far
FirstAlwaysFails == \A k \in 1..Len(runLog) :
                        runLog[k].index = 1 => runLog[k].exitCode # 0

\* every command executed so far exited 0 on its first execution
FirstExecutionsPass == \A i \in 1..Len(commands) :
                           Len(Executions(i)) > 0 => Executions(i)[1].exitCode = 0

\* the entries of one pass (first pass or recheck) of one attempt
PassEntries(a, pass) == SelectSeq(runLog, LAMBDA e : e.attempt = a /\ e.pass = pass)

\* some pass ran the whole command list with every command exiting 0
CleanPassExists ==
    \E a \in 1..MaxAttempts + 1, pass \in {"first", "recheck"} :
        /\ Len(PassEntries(a, pass)) = Len(commands)
        /\ \A k \in 1..Len(commands) :
               PassEntries(a, pass)[k].index = k /\ PassEntries(a, pass)[k].exitCode = 0

\* C1: with a non-empty command list whose first command fails on every
\* execution, the loop never returns success and never starts a 4th attempt;
\* unless the failure branch itself throws, it ends with the verification error
\* after exactly 3 attempts, 3 fixer requests and 3 applied patches.
C1_ThreeAttemptsThenFail ==
    (Len(commands) > 0 /\ FirstAlwaysFails) =>
        /\ pc # "returned"
        /\ attempt <= 3 /\ fixerRequests <= 3 /\ patchCalls <= 3
        /\ pc = "threw" => verifyError \in FixStepErrors \cup {"VerificationFailed"}
        /\ (pc = "threw" /\ verifyError = "VerificationFailed") =>
               /\ attempt = 3
               /\ fixerRequests = 3
               /\ patchCalls = 3
               /\ spawnCount = 3
               /\ Len(SelectSeq(runLog, LAMBDA e : e.pass = "first")) = 3

\* C1 witness: a two-command list whose first command failed every time ended
\* with the verification error.
C1_Witness ==
    /\ pc = "threw" /\ verifyError = "VerificationFailed"
    /\ Len(commands) >= 2
    /\ FirstAlwaysFails
    /\ Len(runLog) = 6

\* C2: with a non-empty command list whose commands all exit 0 on their first
\* execution, the only executions are one first pass in list order, there is no
\* fixer request, patch application or recheck, the attempt counter stays at 1,
\* and the loop returns success as soon as the last command has run.
C2_CleanFirstRun ==
    (Len(commands) > 0 /\ FirstExecutionsPass) =>
        /\ fixerRequests = 0 /\ patchCalls = 0 /\ spawnCount = 0
        /\ attempt <= 1
        /\ pc # "threw"
        /\ Len(runLog) <= Len(commands)
        /\ \A k \in 1..Len(runLog) :
               runLog[k] = [index |-> k, exitCode |-> 0, pass |-> "first", attempt |-> 1]
        /\ (pc = "returned") <=> (Len(runLog) = Len(commands))
        /\ pc = "returned" => attempt = 1

\* C2 witness: a three-command list ran once, cleanly, and the loop returned.
C2_Witness ==
    /\ pc = "returned"
    /\ Len(commands) >= 3
    /\ FirstExecutionsPass
    /\ Len(runLog) = Len(commands)

\* C3: for a non-empty command list, verifyCommands has returned success
\* exactly when some complete pass (first pass or recheck) of one of at most 3
\* attempts had every command exit 0; the attempt counter never exceeds 3.
C3_SuccessIffCleanPass ==
    Len(commands) > 0 =>
        /\ (pc = "returned") <=> CleanPassExists
        /\ attempt <= 3
        /\ \A k \in 1..Len(runLog) : runLog[k].attempt \in 1..3

\* C3 witness: a single command failed on its first two executions (first pass
\* and recheck of attempt 1), passed on the third, and the loop returned success.
C3_Witness ==
    /\ pc = "returned"
    /\ Len(commands) = 1
    /\ [k \in 1..Len(runLog) |-> runLog[k].exitCode] = <<1, 1, 0>>
    /\ attempt <= 3

\* C16: verifyCommands on an empty command list returns success at once: no
\* attempt starts, no command runs, no fixer request is made, no patch is
\* applied and no error is raised.
C16_EmptyCommandsNoOp ==
    Len(commands) = 0 =>
        /\ pc \in {"call", "returned"}
        /\ attempt = 0
        /\ runLog = <<>>
        /\ fixerRequests = 0
        /\ patchCalls = 0
        /\ patchResult = "none" /\ spawnCount = 0 /\ workTree = {}
        /\ verifyError = "none"

\* C16 witness: the call on the empty list has returned.
C16_Witness == Len(commands) = 0 /\ pc = "returned"

SamePass(e, f) == e.attempt = f.attempt /\ e.pass = f.pass

\* C19: within one attempt every pass runs the commands in list order from the
\* first command and stops at its first non-zero exit; there is at most one
\* fixer request per attempt; a recheck pass follows a failed first pass of the
\* same attempt, and a recheck in which the last command (hence every command)
\* exits 0 ends the loop with success in that same attempt.
C19_PassOrderAndRecheck ==
    /\ \A k \in 1..Len(runLog) :
          /\ runLog[k].index \in 1..Len(commands)
          /\ IF k > 1 /\ SamePass(runLog[k - 1], runLog[k])
             THEN /\ runLog[k].index = runLog[k - 1].index + 1
                  /\ runLog[k - 1].exitCode = 0
             ELSE runLog[k].index = 1
          /\ (runLog[k].pass = "recheck" /\ (k = 1 \/ ~SamePass(runLog[k - 1], runLog[k])))
                => /\ k > 1
                   /\ runLog[k - 1].pass = "first"
                   /\ runLog[k - 1].attempt = runLog[k].attempt
                   /\ runLog[k - 1].exitCode # 0
          /\ (runLog[k].pass = "recheck" /\ runLog[k].exitCode = 0
                /\ runLog[k].index = Len(commands))
                => /\ k = Len(runLog)
                   /\ pc = "returned"
                   /\ attempt = runLog[k].attempt
    /\ fixerRequests <= attempt

\* C19 witness: in a three-command list the second command failed in the first
\* pass (the third was not run), the fix was applied, and the recheck ran all
\* three commands from the first and returned success within attempt 1.
C19_Witness ==
    /\ pc = "returned"
    /\ attempt = 1
    /\ fixerRequests = 1
    /\ [k \in 1..Len(runLog) |-> <<runLog[k].pass, runLog[k].index, runLog[k].exitCode>>]
         = << <<"first", 1, 0>>, <<"first", 2, 1>>,
              <<"recheck", 1, 0>>, <<"recheck", 2, 0>>, <<"recheck", 3, 0>> >>

PatchErrors == GuardErrors \cup {"PatchApplyFailure"}

\* C20 (as claimed): an error of applyPatch on a fix patch does not end
\* verifyCommands by itself; the loop goes on, so verifyCommands ends in an
\* error only with the verification failure after its 3 attempts.
C20_PatchFailureCaught ==
    (pc = "threw" /\ patchResult \in PatchErrors) =>
        (verifyError = "VerificationFailed" /\ attempt = MaxAttempts)

\* C20 (amended): an error of applyPatch on a fix patch leaves verifyCommands
\* at once with that error: the last command run is the failing one of the
\* first pass of the current attempt, no recheck and no further attempt follow.
C20_PatchFailurePropagates ==
    patchResult \in PatchErrors =>
        /\ pc = "threw"
        /\ verifyError = patchResult
        /\ Len(runLog) > 0
        /\ runLog[Len(runLog)].pass = "first"
        /\ runLog[Len(runLog)].exitCode # 0
        /\ runLog[Len(runLog)].attempt = attempt
        /\ fixerRequests = attempt /\ patchCalls = attempt

\* C20 witness: git apply failed on the fix patch of the first attempt and
\* verifyCommands ended with that error after one attempt.
C20_Witness ==
    /\ pc = "threw"
    /\ verifyError = "PatchApplyFailure"
    /\ patchResult = "PatchApplyFailure"
    /\ attempt = 1

-----------------------------------------------------------------------------
(* SpecPath: one resolveSafePath call on every root and input path *)

MaxSegments == 3

Str_repo2 == <<"r", "e", "p", "o", "2">>
Str_dotdot == <<".", ".">>

PathRoots == { SLASH \o Path(<<Str_w, Str_repo>>), SLASH \o Str_w }

InputSegments == { Str_dotdot, Str_w, Str_repo, Str_repo2, Str_src, Str_a_ts,
                   Str_env_local, Str_node_modules }

\* relative paths and absolute overrides of up to MaxSegments segments
InputPaths ==
    LET segs == UNION { [1..n -> InputSegments] : n \in 1..MaxSegments }
    IN  { Path(p) : p \in segs } \cup { SLASH \o Path(p) : p \in segs }

InitPath ==
    /\ root \in PathRoots
    /\ inputPath \in InputPaths
    /\ resolveResult = [state |-> "none", error |-> "none", path |-> <<>>]
    /\ PatchIdle
    /\ VerifyIdle
    /\ RunIdle
    /\ RestIdle

ResolveSafePath ==
    /\ resolveResult.state = "none"
    /\ resolveResult' = resolveSafePath(root, inputPath)
    /\ UNCHANGED <<root, inputPath, patchVars, verifyVars, runVars, mapVars, readVars, raceVars>>

NextPath == ResolveSafePath

SpecPath == InitPath /\ [][NextPath]_vars

(* Claims about resolveSafePath, checked under SpecPath *)

IsPrefix(s, t) == Len(s) <= Len(t) /\ SubSeq(t, 1, Len(s)) = s

\* directory `dir` is `p` itself or one of its ancestor directories
IsWithin(dir, p) ==
    IsPrefix(normalizeSegments(split(dir, "/"), <<>>),
             normalizeSegments(split(p, "/"), <<>>))

\* C7 (as claimed): resolveSafePath never returns a path outside root, and every
\* input that resolves to a location outside root (through "..", an absolute
\* override or a sibling directory) is rejected.
C7_NeverOutsideRoot ==
    /\ resolveResult.state = "returned" => IsWithin(root, resolveResult.path)
    /\ (resolveResult.state # "none" /\ ~IsWithin(root, resolve(root, inputPath)))
           => resolveResult.state = "threw"

\* C8 (as claimed): an input whose resolved path is outside root, or has a
\* sensitive filename, or has an ignored segment, is rejected whatever the
\* other two checks say; every returned path is non-sensitive and has no
\* ignored segment.
C8_AllThreeChecks ==
    /\ ( /\ resolveResult.state # "none"
         /\ \/ ~IsWithin(root, resolve(root, inputPath))
            \/ isSensitivePath(resolve(root, inputPath))
            \/ containsIgnoredSegment(resolve(root, inputPath)) )
       => resolveResult.state = "threw"
    /\ resolveResult.state = "returned" =>
           /\ ~isSensitivePath(resolveResult.path)
           /\ ~containsIgnoredSegment(resolveResult.path)

-----------------------------------------------------------------------------
(* buildRepoMap (retrieve.ts) *)

INDENT == <<" ", " ">>
NEWLINE == <<"\n">>
Str_dot == <<".">>

RECURSIVE repeat(_, _)
\* String.prototype.repeat
repeat(s, n) == IF n = 0 THEN <<>> ELSE s \o repeat(s, n - 1)

shouldIgnore(name) == toLowerCase(name) \in IgnoresLower

\* the order in which readdir lists the names of a directory
EntryOrder == <<Str_README_md, Str_Vendor, Str_a_ts, Str_node_modules, Str_src, Str_sub>>

\* fs.readdir(current): the names of the directories and files directly in it
readdir(current, dirs, files) ==
    SelectSeq(EntryOrder, LAMBDA n : Append(current, n) \in dirs \cup files)

\* path.relative(root, current) || "."
relative(current) == IF Len(current) = 0 THEN Str_dot ELSE Path(current)

RECURSIVE walk(_, _, _, _, _)
RECURSIVE walkEntries(_, _, _, _, _, _)

\* the lines pushed by the for loop of walk over the entries not yet visited
walkEntries(entries, current, currentDepth, depth, dirs, files) ==
    IF Len(entries) = 0 THEN <<>>
    ELSE LET name == Head(entries)
             rest == walkEntries(Tail(entries), current, currentDepth, depth, dirs, files)
         IN  IF Append(current, name) \in dirs
             THEN IF shouldIgnore(name) THEN rest
                  ELSE walk(Append(current, name), currentDepth + 1, depth, dirs, files)
                           \o rest
             ELSE <<repeat(INDENT, currentDepth + 1) \o name>> \o rest

\* the lines pushed by walk(current, currentDepth)
walk(current, currentDepth, depth, dirs, files) ==
    IF currentDepth > depth THEN <<>>
    ELSE <<repeat(INDENT, currentDepth) \o relative(current) \o SLASH>>
             \o walkEntries(readdir(current, dirs, files), current, currentDepth,
                            depth, dirs, files)

\* a variant of buildRepoMap that descends one level further than asked
buildRepoMap_OneLevelMore(dirs, files, depth) ==
    join(walk(<<>>, 0, depth + 1, dirs, files), NEWLINE)

buildRepoMap(dirs, files, depth) == join(walk(<<>>, 0, depth, dirs, files), NEWLINE)

(* SpecMap: one buildRepoMap call on every small tree and depth *)

MaxDepth == 2

MapDirUniverse == {
    <<Str_src>>, <<Str_src, Str_sub>>, <<Str_src, Str_sub, Str_Vendor>>,
    <<Str_node_modules>> }

MapFileUniverse == {
    <<Str_a_ts>>, <<Str_README_md>>, <<Str_src, Str_a_ts>>,
    <<Str_src, Str_sub, Str_a_ts>>, <<Str_src, Str_sub, Str_Vendor, Str_a_ts>>,
    <<Str_node_modules, Str_a_ts>> }

Parent(p) == SubSeq(p, 1, Len(p) - 1)

\* a directory tree: every entry's parent is the root or a directory of the tree
IsTree(dirs, files) ==
    \A p \in dirs \cup files : Len(p) = 1 \/ Parent(p) \in dirs

InitMap ==
    /\ mapDirs \in SUBSET MapDirUniverse
    /\ mapFiles \in SUBSET MapFileUniverse
    /\ IsTree(mapDirs, mapFiles)
    /\ mapDepth \in 0..MaxDepth
    /\ repoMap = [state |-> "none", text |-> <<>>]
    /\ PatchIdle
    /\ PathIdle
    /\ VerifyIdle
    /\ RunIdle
    /\ ReadIdle
    /\ RaceIdle

BuildRepoMap ==
    /\ repoMap.state = "none"
    /\ repoMap' = [state |-> "returned",
                   text |-> buildRepoMap(mapDirs, mapFiles, mapDepth)]
    /\ UNCHANGED <<mapDirs, mapFiles, mapDepth, patchVars, pathVars, verifyVars, runVars,
                   readVars, raceVars>>

NextMap == BuildRepoMap

SpecMap == InitMap /\ [][NextMap]_vars

(* Claims about buildRepoMap, checked under SpecMap *)

MapLines == split(repoMap.text, "\n")

RootLine == Str_dot \o SLASH

RootFiles == {f \in mapFiles : Len(f) = 1}

\* C17 (as claimed): buildRepoMap(root, 0) on a non-empty root directory returns
\* only the root line, with no file entry and no sub-directory entry.
C17_DepthZeroRootLineOnly ==
    (repoMap.state = "returned" /\ mapDepth = 0 /\ mapDirs \cup mapFiles # {})
        => MapLines = <<RootLine>>

\* C17 (amended): buildRepoMap(root, 0) returns the root line followed by one
\* line, indented by two spaces, for each file directly in the root, and
\* nothing else: no sub-directory line and no file of a sub-directory.
C17_DepthZeroRootAndItsFiles ==
    (repoMap.state = "returned" /\ mapDepth = 0) =>
        /\ MapLines[1] = RootLine
        /\ Len(MapLines) = 1 + Cardinality(RootFiles)
        /\ {MapLines[k] : k \in 2..Len(MapLines)} = {INDENT \o f[1] : f \in RootFiles}

\* C17 witness: at depth 0, a root holding a file and a sub-directory with a
\* file of its own has been mapped.
C17_Witness ==
    /\ repoMap.state = "returned"
    /\ mapDepth = 0
    /\ <<Str_a_ts>> \in mapFiles
    /\ <<Str_src>> \in mapDirs
    /\ <<Str_src, Str_a_ts>> \in mapFiles

-----------------------------------------------------------------------------
(* run (orchestrator.ts) and main (cli.ts) *)

Type_code_change == <<"c", "o", "d", "e", ".", "c", "h", "a", "n", "g", "e">>
Type_code_analysis == <<"c", "o", "d", "e", ".", "a", "n", "a", "l", "y", "s", "i", "s">>
Type_docs_write == <<"d", "o", "c", "s", ".", "w", "r", "i", "t", "e">>
Type_docs_analysis == <<"d", "o", "c", "s", ".", "a", "n", "a", "l", "y", "s", "i", "s">>
Type_research == <<"r", "e", "s", "e", "a", "r", "c", "h">>
Type_misc_text == <<"m", "i", "s", "c", ".", "t", "e", "x", "t">>

TASK_TYPES == {Type_code_change, Type_code_analysis, Type_docs_write,
               Type_docs_analysis, Type_research, Type_misc_text}

Str_code == <<"c", "o", "d", "e">>
Str_TODO == <<"T", "O", "D", "O">>

\* a SessionEntry: its type, and whether this run or an earlier one wrote it
\* (its `at` and `content`)
Entry(type, run) == [type |-> type, run |-> run]

\* addEntry(session, entry)
addEntry(sess, type) ==
    [sess EXCEPT !.history = Append(sess.history, Entry(type, "this"))]

\* the session file an earlier text run left behind
PriorHistory == <<Entry("task", "earlier"), Entry("classification", "earlier"),
                  Entry("plan", "earlier"), Entry("retrieval", "earlier"),
                  Entry("output", "earlier")>>

PriorFile == [exists |-> TRUE, history |-> PriorHistory, summary |-> "s0"]

\* loadSession: the parsed file, or a fresh record when it cannot be read
loadSession(file) ==
    IF file.exists THEN [history |-> file.history, summary |-> file.summary]
    ELSE FreshSession

\* saveSession: the record written to the session file
saveSession(sess) == [exists |-> TRUE, history |-> sess.history, summary |-> sess.summary]

\* the summaries the backend may answer with
SummaryTexts == {"s1", "s2"}

Ev(kind, what) == [kind |-> kind, what |-> what]

\* the absolute paths of the files that exist under the root
ExistingResolved == {resolve(VerifyRoot, f) : f \in ExistingFiles}

RECURSIVE readFilesFrom_ResolvedKeys(_, _, _)
\* a variant of readFilesFrom that keys the result by the resolved path
readFilesFrom_ResolvedKeys(rootDir, files, keys) ==
    IF Len(files) = 0 THEN [state |-> "returned", error |-> "none", keys |-> keys]
    ELSE IF resolveSafePath(rootDir, Head(files)).state = "threw"
    THEN [state |-> "threw", error |-> "PathViolation", keys |-> {}]
    ELSE IF resolveSafePath(rootDir, Head(files)).path \notin ExistingResolved
    THEN [state |-> "threw", error |-> "ReadError", keys |-> {}]
    ELSE readFilesFrom_ResolvedKeys(rootDir, Tail(files),
             keys \cup {resolveSafePath(rootDir, Head(files)).path})

RECURSIVE readFilesFrom(_, _, _)
\* the for loop of readFilesSafe: the first path that resolveSafePath refuses,
\* or whose resolved file cannot be read, ends the call; a path read is a key
readFilesFrom(rootDir, files, keys) ==
    IF Len(files) = 0 THEN [state |-> "returned", error |-> "none", keys |-> keys]
    ELSE IF resolveSafePath(rootDir, Head(files)).state = "threw"
    THEN [state |-> "threw", error |-> "PathViolation", keys |-> {}]
    ELSE IF resolveSafePath(rootDir, Head(files)).path \notin ExistingResolved
    THEN [state |-> "threw", error |-> "ReadError", keys |-> {}]
    ELSE readFilesFrom(rootDir, Tail(files), keys \cup {Head(files)})

readFilesSafe(rootDir, files) == readFilesFrom(rootDir, files, {})

\* retrieveContext: searches only for the code task types, reads for all
retrieveContext(rootDir, p, t) ==
    LET searched == IF startsWith(t, Str_code) THEN Range(p.search) ELSE {}
        read == IF Len(p.read) > 0 THEN readFilesSafe(rootDir, p.read)
                ELSE [state |-> "returned", error |-> "none", keys |-> {}]
    IN  [state |-> read.state, error |-> read.error,
         searchResults |-> IF read.state = "returned" THEN searched ELSE {},
         files |-> read.keys]

(* the inputs of a run *)

MaxRunCmds == 1

SearchLists == {<<>>, <<Str_TODO>>}

ReadLists == {<<>>, <<Path(<<Str_src, Str_a_ts>>)>>, <<Str_env_local>>,
              <<Path(<<Str_src, Str_gone_ts>>)>>}

PlanSet == [search : SearchLists, read : ReadLists]

\* the implementer's answers: a code diff, a docs diff, plain text
ImplementerOutputs == {
    DiffOf(<<Path(<<Str_src, Str_a_ts>>)>>, FALSE),
    DiffOf(<<Str_README_md>>, FALSE),
    <<ContentLine>> }

\* the fixer's answers to a blocking review
ReviewFixDiffs == {DiffOf(<<Path(<<Str_src, Str_a_ts>>)>>, FALSE), <<ContentLine>>}

(* the steps of a run *)

\* an error leaves run and reaches the catch of main: the message is written
\* to standard error and the process exits with code 1
Fail(err, evs) ==
    /\ stage' = "failed"
    /\ processExit' = "1"
    /\ events' = events \o evs \o <<Ev("stderr", err)>>

\* a backend step fails: no prompt file, no answer, or an answer that does not
\* validate
StepFails(role, errors) ==
    \E err \in errors :
        Fail(err, IF err = "PromptNotFound" THEN <<>> ELSE <<Ev("backend", role)>>)

\* a variant of Start that writes the session file as soon as the task entry
\* is added
Start_SavesTask ==
    /\ stage = "start"
    /\ session' = addEntry(loadSession(sessionFile), "task")
    /\ sessionFile' = saveSession(session')
    /\ stage' = "classify"
    /\ UNCHANGED <<taskType, plan, retrieval, implementerRaw, blocking,
                   events, processExit, stdout>>
    /\ UNCHANGED <<patchVars, pathVars, verifyVars, mapVars, readVars, raceVars>>

\* loadSession and the task entry
Start ==
    /\ stage = "start"
    /\ session' = addEntry(loadSession(sessionFile), "task")
    /\ stage' = "classify"
    /\ UNCHANGED <<taskType, plan, retrieval, implementerRaw, blocking, sessionFile,
                   events, processExit, stdout>>
    /\ UNCHANGED <<patchVars, pathVars, verifyVars, mapVars, readVars, raceVars>>

\* classifyTask and the classification entry
Classify ==
    /\ stage = "classify"
    /\ \/ /\ StepFails("classify", {"PromptNotFound", "BackendFailure", "ValidationError"})
          /\ UNCHANGED <<taskType, session>>
       \/ /\ taskType' \in TASK_TYPES
          /\ session' = addEntry(session, "classification")
          /\ events' = Append(events, Ev("backend", "classify"))
          /\ stage' = "plan"
          /\ UNCHANGED processExit
    /\ UNCHANGED <<plan, retrieval, implementerRaw, blocking, sessionFile, stdout>>
    /\ UNCHANGED <<patchVars, pathVars, verifyVars, mapVars, readVars, raceVars>>

\* buildRepoMap, the planner call, validatePlan and the plan entry
PlanStep ==
    /\ stage = "plan"
    /\ \/ /\ StepFails("plan", {"PromptNotFound", "BackendFailure", "ValidationError"})
          /\ UNCHANGED <<plan, commands, session>>
       \/ /\ plan' \in PlanSet
          /\ commands' \in { [i \in 1..n |-> i] : n \in 0..MaxRunCmds }
          /\ session' = addEntry(session, "plan")
          /\ events' = Append(events, Ev("backend", "plan"))
          /\ stage' = "retrieve"
          /\ UNCHANGED processExit
    /\ UNCHANGED <<taskType, retrieval, implementerRaw, blocking, sessionFile, stdout>>
    /\ UNCHANGED <<pc, attempt, idx, lastFailure, runLog, fixerRequests, patchCalls,
                   verifyError>>
    /\ UNCHANGED <<patchVars, pathVars, mapVars, readVars, raceVars>>

\* retrieveContext and the retrieval entry
Retrieve ==
    /\ stage = "retrieve"
    /\ LET r == retrieveContext(VerifyRoot, plan, taskType)
       IN  IF r.state = "threw"
           THEN Fail(r.error, <<>>) /\ UNCHANGED <<retrieval, session>>
           ELSE /\ retrieval' = [searchResults |-> r.searchResults, files |-> r.files]
                /\ session' = addEntry(session, "retrieval")
                /\ stage' = "implement"
                /\ UNCHANGED <<events, processExit>>
    /\ UNCHANGED <<taskType, plan, implementerRaw, blocking, sessionFile, stdout>>
    /\ UNCHANGED <<patchVars, pathVars, verifyVars, mapVars, readVars, raceVars>>

\* where run goes after the output entry
branchOf_CodePrefix(t) ==
    IF startsWith(t, Str_code) THEN "applyCode"
    ELSE IF t = Type_docs_write THEN "applyDocs"
    ELSE "reviewText"

branchOf(t) ==
    IF t = Type_code_change THEN "applyCode"
    ELSE IF t = Type_docs_write THEN "applyDocs"
    ELSE "reviewText"

\* the implementer call and the output entry
Implement ==
    /\ stage = "implement"
    /\ \/ /\ StepFails("implement", {"PromptNotFound", "BackendFailure"})
          /\ UNCHANGED <<implementerRaw, session>>
       \/ /\ implementerRaw' \in ImplementerOutputs
          /\ session' = addEntry(session, "output")
          /\ events' = Append(events, Ev("backend", "implement"))
          /\ stage' = branchOf(taskType)
          /\ UNCHANGED processExit
    /\ UNCHANGED <<taskType, plan, retrieval, blocking, sessionFile, stdout>>
    /\ UNCHANGED <<patchVars, pathVars, verifyVars, mapVars, readVars, raceVars>>

\* applyPatch(implementerRaw, o) of a branch; `next` is the step after it
ApplyImplementer(o, next) ==
    \E outcome \in GitOutcomes :
        /\ PatchEffect(implementerRaw, o, outcome)
        /\ IF applyPatch(implementerRaw, o, outcome).error = "none"
           THEN /\ stage' = next
                /\ events' = Append(events, Ev("patch", "applied"))
                /\ UNCHANGED processExit
           ELSE Fail(applyPatch(implementerRaw, o, outcome).error,
                     <<Ev("patch", applyPatch(implementerRaw, o, outcome).error)>>)

\* code.change: applyPatch(implementerRaw, { root })
ApplyCode ==
    /\ stage = "applyCode"
    /\ ApplyImplementer(DefaultOptions, "reviewCode")
    /\ UNCHANGED <<taskType, plan, retrieval, implementerRaw, blocking, session,
                   sessionFile, stdout>>
    /\ UNCHANGED <<pathVars, verifyVars, mapVars, readVars, raceVars>>

\* docs.write: applyPatch(implementerRaw, { root, allowedExtensions })
ApplyDocs ==
    /\ stage = "applyDocs"
    /\ ApplyImplementer(DocsOptions, "reviewText")
    /\ UNCHANGED <<taskType, plan, retrieval, implementerRaw, blocking, session,
                   sessionFile, stdout>>
    /\ UNCHANGED <<pathVars, verifyVars, mapVars, readVars, raceVars>>

\* reviewCode and the review entry; a blocking review goes to the fix, any
\* other to verifyCommands
ReviewCode ==
    /\ stage = "reviewCode"
    /\ \/ /\ StepFails("review", {"PromptNotFound", "BackendFailure", "ValidationError"})
          /\ UNCHANGED <<blocking, session, pc>>
       \/ /\ blocking' \in BOOLEAN
          /\ session' = addEntry(session, "review")
          /\ events' = Append(events, Ev("backend", "review"))
          /\ IF blocking' THEN stage' = "reviewFix" /\ pc' = pc
                          ELSE stage' = "verify" /\ pc' = "call"
          /\ UNCHANGED processExit
    /\ UNCHANGED <<taskType, plan, retrieval, implementerRaw, sessionFile, stdout>>
    /\ UNCHANGED <<commands, attempt, idx, lastFailure, runLog, fixerRequests,
                   patchCalls, verifyError>>
    /\ UNCHANGED <<patchVars, pathVars, mapVars, readVars, raceVars>>

\* a variant of ReviewFix that reviews the fixed code again
ReviewFix_ReviewsAgain ==
    /\ stage = "reviewFix"
    /\ \E fixRaw \in ReviewFixDiffs, outcome \in GitOutcomes :
          /\ PatchEffect(fixRaw, DefaultOptions, outcome)
          /\ stage' = "reviewCode"
          /\ events' = events \o <<Ev("backend", "fix"), Ev("patch", patchResult')>>
          /\ UNCHANGED <<processExit, pc>>
    /\ UNCHANGED <<taskType, plan, retrieval, implementerRaw, blocking, session,
                   sessionFile, stdout>>
    /\ UNCHANGED <<commands, attempt, idx, lastFailure, runLog, fixerRequests,
                   patchCalls, verifyError>>
    /\ UNCHANGED <<pathVars, mapVars, readVars, raceVars>>

\* the fix of a blocking review: one fixer call, one applyPatch, then
\* verifyCommands
ReviewFix ==
    /\ stage = "reviewFix"
    /\ \/ /\ StepFails("fix", {"PromptNotFound", "BackendFailure"})
          /\ UNCHANGED <<patchVars, pc>>
       \/ \E fixRaw \in ReviewFixDiffs, outcome \in GitOutcomes :
            /\ PatchEffect(fixRaw, DefaultOptions, outcome)
            /\ IF applyPatch(fixRaw, DefaultOptions, outcome).error = "none"
               THEN /\ stage' = "verify" /\ pc' = "call"
                    /\ events' = events \o <<Ev("backend", "fix"), Ev("patch", "applied")>>
                    /\ UNCHANGED processExit
               ELSE /\ Fail(applyPatch(fixRaw, DefaultOptions, outcome).error,
                            <<Ev("backend", "fix"),
                              Ev("patch", applyPatch(fixRaw, DefaultOptions, outcome).error)>>)
                    /\ pc' = pc
    /\ UNCHANGED <<taskType, plan, retrieval, implementerRaw, blocking, session,
                   sessionFile, stdout>>
    /\ UNCHANGED <<commands, attempt, idx, lastFailure, runLog, fixerRequests,
                   patchCalls, verifyError>>
    /\ UNCHANGED <<pathVars, mapVars, readVars, raceVars>>

\* what one step of verifyCommands did, as events
verifyEvents ==
    (IF Len(runLog') > Len(runLog) THEN <<Ev("command", "run")>> ELSE <<>>)
    \o (IF fixerRequests' > fixerRequests THEN <<Ev("backend", "fix")>> ELSE <<>>)
    \o (IF patchCalls' > patchCalls THEN <<Ev("patch", patchResult')>> ELSE <<>>)

\* a variant of AfterVerifyStep that goes on to the summary when verifyCommands
\* throws
AfterVerifyStep_SwallowsThrow ==
    /\ stage' = IF pc' \in {"returned", "threw"} THEN "summarize" ELSE "verify"
    /\ processExit' = IF pc' = "threw" THEN "1" ELSE processExit
    /\ events' = events \o verifyEvents
                   \o (IF pc' = "threw" THEN <<Ev("stderr", verifyError')>> ELSE <<>>)
    /\ UNCHANGED <<taskType, plan, retrieval, implementerRaw, blocking, session,
                   sessionFile, stdout, mapVars, readVars, raceVars>>

\* run around one step of verifyCommands: its return leads to the summary, its
\* throw to the catch of main
AfterVerifyStep ==
    /\ stage' = IF pc' = "returned" THEN "summarize"
                ELSE IF pc' = "threw" THEN "failed" ELSE "verify"
    /\ processExit' = IF pc' = "threw" THEN "1" ELSE processExit
    /\ events' = events \o verifyEvents
                   \o (IF pc' = "threw" THEN <<Ev("stderr", verifyError')>> ELSE <<>>)
    /\ UNCHANGED <<taskType, plan, retrieval, implementerRaw, blocking, session,
                   sessionFile, stdout, mapVars, readVars, raceVars>>

\* a variant of ReviewText that records the review in the session history
ReviewText_AddsEntry ==
    /\ stage = "reviewText"
    /\ \/ /\ StepFails("review", {"PromptNotFound", "BackendFailure", "ValidationError"})
          /\ UNCHANGED session
       \/ /\ events' = Append(events, Ev("backend", "review"))
          /\ session' = addEntry(session, "review")
          /\ stage' = "summarize"
          /\ UNCHANGED processExit
    /\ UNCHANGED <<taskType, plan, retrieval, implementerRaw, blocking, sessionFile, stdout>>
    /\ UNCHANGED <<patchVars, pathVars, verifyVars, mapVars, readVars, raceVars>>

\* reviewText: the answer is validated and dropped
ReviewText ==
    /\ stage = "reviewText"
    /\ \/ StepFails("review", {"PromptNotFound", "BackendFailure", "ValidationError"})
       \/ /\ events' = Append(events, Ev("backend", "review"))
          /\ stage' = "summarize"
          /\ UNCHANGED processExit
    /\ UNCHANGED <<taskType, plan, retrieval, implementerRaw, blocking, session,
                   sessionFile, stdout>>
    /\ UNCHANGED <<patchVars, pathVars, verifyVars, mapVars, readVars, raceVars>>

\* a variant of Summarize that appends the answer to the previous summary
Summarize_Appends ==
    /\ stage = "summarize"
    /\ \/ /\ StepFails("summarize", {"PromptNotFound", "BackendFailure"})
          /\ UNCHANGED session
       \/ /\ \E text \in SummaryTexts :
                session' = [session EXCEPT !.summary = session.summary \o text]
          /\ events' = Append(events, Ev("backend", "summarize"))
          /\ stage' = "save"
          /\ UNCHANGED processExit
    /\ UNCHANGED <<taskType, plan, retrieval, implementerRaw, blocking, sessionFile,
                   stdout>>
    /\ UNCHANGED <<patchVars, pathVars, verifyVars, mapVars, readVars, raceVars>>

\* refreshSessionSummary: the summary is replaced by the backend's answer
Summarize ==
    /\ stage = "summarize"
    /\ \/ /\ StepFails("summarize", {"PromptNotFound", "BackendFailure"})
          /\ UNCHANGED session
       \/ /\ \E text \in SummaryTexts : session' = [session EXCEPT !.summary = text]
          /\ events' = Append(events, Ev("backend", "summarize"))
          /\ stage' = "save"
          /\ UNCHANGED processExit
    /\ UNCHANGED <<taskType, plan, retrieval, implementerRaw, blocking, sessionFile,
                   stdout>>
    /\ UNCHANGED <<patchVars, pathVars, verifyVars, mapVars, readVars, raceVars>>

\* saveSession and the end of run: the text task types write the implementer's
\* output to standard output
Save ==
    /\ stage = "save"
    /\ sessionFile' = saveSession(session)
    /\ IF taskType \in {Type_code_change, Type_docs_write}
       THEN /\ events' = Append(events, Ev("save", "session"))
            /\ stdout' = stdout
       ELSE /\ events' = events \o <<Ev("save", "session"), Ev("stdout", "output")>>
            /\ stdout' = Append(stdout, implementerRaw)
    /\ stage' = "done"
    /\ processExit' = "0"
    /\ UNCHANGED <<taskType, plan, retrieval, implementerRaw, blocking, session>>
    /\ UNCHANGED <<patchVars, pathVars, verifyVars, mapVars, readVars, raceVars>>

(* SpecRun: one run on every classification, plan and backend answer *)

InitRun ==
    /\ stage = "start"
    /\ taskType = NoType
    /\ plan = NoPlan
    /\ retrieval = NoRetrieval
    /\ implementerRaw = <<>>
    /\ blocking = FALSE
    /\ session = FreshSession
    /\ sessionFile \in {AbsentFile, PriorFile}
    /\ events = <<>>
    /\ processExit = "none"
    /\ stdout = <<>>
    /\ PatchIdle
    /\ PathIdle
    /\ VerifyIdle
    /\ RestIdle

NextRun ==
    \/ Start
    \/ Classify
    \/ PlanStep
    \/ Retrieve
    \/ Implement
    \/ ApplyCode
    \/ ApplyDocs
    \/ ReviewCode
    \/ ReviewFix
    \/ stage = "verify" /\ Enter /\ AfterVerifyStep
    \/ stage = "verify" /\ RunFirstPass /\ AfterVerifyStep
    \/ stage = "verify" /\ FixContextFails /\ AfterVerifyStep
    \/ stage = "verify" /\ FixPromptMissing /\ AfterVerifyStep
    \/ stage = "verify" /\ FixBackendFails /\ AfterVerifyStep
    \/ stage = "verify" /\ FixApply /\ AfterVerifyStep
    \/ stage = "verify" /\ RunRecheck /\ AfterVerifyStep
    \/ ReviewText
    \/ Summarize
    \/ Save

SpecRun == InitRun /\ [][NextRun]_vars

(* Claims about run, checked under SpecRun *)

EventsOf(kind) == SelectSeq(events, LAMBDA e : e.kind = kind)

BackendCalls(role) == SelectSeq(events, LAMBDA e : e = Ev("backend", role))

EarlierEntries == SelectSeq(session.history, LAMBDA e : e.run = "earlier")

ThisRunEntries == SelectSeq(session.history, LAMBDA e : e.run = "this")

TypesOf(h) == [k \in 1..Len(h) |-> h[k].type]

TextTypes == TASK_TYPES \ {Type_code_change, Type_docs_write}

\* C12: a patch is applied only in code.change and docs.write runs and plan
\* commands are run only in code.change runs; a run of any other type applies
\* no patch, runs no command, and ends by writing the implementer output to
\* standard output after the review, the summary and the save.
C12_PatchAndVerifyByType ==
    /\ taskType \notin {Type_code_change, Type_docs_write} =>
          /\ EventsOf("patch") = <<>>
          /\ patchResult = "none" /\ spawnCount = 0 /\ workTree = {}
    /\ taskType # Type_code_change =>
          /\ EventsOf("command") = <<>>
          /\ runLog = <<>> /\ pc = "idle" /\ attempt = 0
    /\ (stage = "done" /\ taskType \in TextTypes) =>
          /\ stdout = <<implementerRaw>>
          /\ Len(events) >= 4
          /\ SubSeq(events, Len(events) - 3, Len(events)) =
                 <<Ev("backend", "review"), Ev("backend", "summarize"),
                   Ev("save", "session"), Ev("stdout", "output")>>

\* C12 witness: a research run whose implementer answered with a diff has
\* ended: the diff was written to standard output and not applied.
C12_Witness ==
    /\ stage = "done"
    /\ taskType = Type_research
    /\ stdout = <<DiffOf(<<Path(<<Str_src, Str_a_ts>>)>>, FALSE)>>
    /\ workTree = {}

\* the run has come to verifyCommands
ReachedVerify == stage \in {"verify", "summarize", "save", "done"} \/ pc = "threw"

\* the place of the code review among the events
ReviewAt == CHOOSE k \in 1..Len(events) : events[k] = Ev("backend", "review")

\* C13: a code.change run reviews once; a blocking review is followed at once
\* by exactly one fixer request and one patch application, a non-blocking one
\* by neither; verifyCommands then starts with its attempt counter at 0 and
\* still makes all 3 of its attempts (with 3 fixer requests of its own) before
\* it fails.
C13_SingleReviewFix ==
    taskType = Type_code_change =>
        /\ Len(BackendCalls("review")) <= 1
        /\ ~blocking => stage # "reviewFix"
        /\ (stage = "verify" /\ pc = "call") =>
              (attempt = 0 /\ fixerRequests = 0 /\ patchCalls = 0 /\ runLog = <<>>)
        /\ ReachedVerify =>
              /\ Len(BackendCalls("review")) = 1
              /\ IF blocking
                 THEN /\ Len(events) >= ReviewAt + 2
                      /\ events[ReviewAt + 1] = Ev("backend", "fix")
                      /\ events[ReviewAt + 2] = Ev("patch", "applied")
                      /\ Len(BackendCalls("fix")) = 1 + fixerRequests
                      /\ Len(EventsOf("patch")) = 2 + patchCalls
                 ELSE /\ Len(events) > ReviewAt =>
                            events[ReviewAt + 1] # Ev("backend", "fix")
                      /\ Len(BackendCalls("fix")) = fixerRequests
                      /\ Len(EventsOf("patch")) = 1 + patchCalls
        /\ verifyError = "VerificationFailed" =>
              (attempt = MaxAttempts /\ fixerRequests = MaxAttempts)

\* C13 witness: after a blocking review and its fix, verifyCommands used all 3
\* attempts and failed: 4 fixer requests in all.
C13_Witness ==
    /\ taskType = Type_code_change
    /\ blocking
    /\ stage = "failed"
    /\ verifyError = "VerificationFailed"
    /\ attempt = MaxAttempts
    /\ Len(BackendCalls("fix")) = MaxAttempts + 1

\* the entries a finished run of type t has appended
RunEntryTypes(t) ==
    <<"task", "classification", "plan", "retrieval", "output">>
        \o (IF t = Type_code_change THEN <<"review">> ELSE <<>>)

C15_FailureIsTerminal ==
    /\ \A k \in 1..Len(events) :
          events[k].kind = "stderr" => (k = Len(events) /\ stage = "failed")
    /\ processExit = "1" <=> stage = "failed"
    /\ stage = "failed" =>
          /\ Len(events) > 0 /\ events[Len(events)].kind = "stderr"
          /\ EventsOf("save") = <<>> /\ EventsOf("stdout") = <<>>
          /\ stdout = <<>>
          /\ Len(BackendCalls("summarize")) = 0 \/ events[Len(events) - 1] = Ev("backend", "summarize")
          /\ ~ENABLED NextRun

\* C15 witness: verifyCommands gave up after its fix patches had been applied
\* to the working tree, and the run ended with exit code 1.
C15_Witness ==
    /\ stage = "failed"
    /\ processExit = "1"
    /\ verifyError = "VerificationFailed"
    /\ workTree # {}

\* C18 (as claimed): once the retrieval stage has completed, the retrieval
\* result has one searchResults key per token of plan.search and one files key
\* per path of plan.read, for every task type.
C18_RetrievesWhatPlanRequests ==
    (\E k \in 1..Len(ThisRunEntries) : ThisRunEntries[k].type = "retrieval") =>
        /\ retrieval.searchResults = Range(plan.search)
        /\ retrieval.files = Range(plan.read)

-----------------------------------------------------------------------------
(* Further claims about verifyCommands, checked under Spec *)

\* a candidate that resolveSafePath refuses
Refused(f) == resolveSafePath(VerifyRoot, f).state = "threw"

\* a candidate that resolveSafePath accepts and that cannot be read
Unreadable(f) == ~Refused(f) /\ f \notin ExistingFiles

\* C25: in the failure branch of verifyCommands a candidate path that
\* resolveSafePath refuses is dropped without an error, while a candidate that
\* passes and cannot be read ends verifyCommands at once with the read error:
\* no fixer request, no patch, no recheck and no further attempt.
C25_UnreadableCandidateIsFatal ==
    [][pc = "fix" =>
         IF \E f \in lastFailure.files : Unreadable(f)
         THEN /\ pc' = "threw"
              /\ verifyError' = "ReadError"
              /\ fixerRequests' = fixerRequests
              /\ patchCalls' = patchCalls
              /\ runLog' = runLog
              /\ attempt' = attempt
         ELSE /\ verifyError' # "ReadError"
              /\ (pc' = "threw" => verifyError' \in FixStepErrors)]_vars

\* C25 witness: in the second attempt the failed command named a file that
\* does not exist, and verifyCommands ended with the
\* read error after the one fixer request of the first attempt.
C25_Witness ==
    /\ pc = "threw"
    /\ verifyError = "ReadError"
    /\ attempt = 2
    /\ fixerRequests = 1
    /\ patchCalls = 1

-----------------------------------------------------------------------------
(* Further claims about run, checked under SpecRun *)

\* the place of a role in the order of the backend calls
RoleRank(role) ==
    CASE role = "classify" -> 1
      [] role = "plan" -> 2
      [] role = "implement" -> 3
      [] role = "review" -> 4
      [] role = "fix" -> 5
      [] role = "summarize" -> 6

\* the roles of the backend calls so far, in call order
BackendRoles == [k \in 1..Len(EventsOf("backend")) |-> EventsOf("backend")[k].what]

\* the place of the summarize call among the events
SummarizeAt == CHOOSE k \in 1..Len(events) : events[k] = Ev("backend", "summarize")

\* C22: the backend is called in the order classify, plan, implement, review,
\* fix (any number), summarize, each but fix at most once. Until the summarize
\* call the summary is the one loaded from the session file; the call replaces
\* it by the backend's answer, after every patch application, review and
\* command of the run, and the one save follows it and writes that summary.
C22_SummaryReplacedOnceBeforeSave ==
    /\ \A k \in 1..Len(BackendRoles) - 1 :
          /\ RoleRank(BackendRoles[k]) <= RoleRank(BackendRoles[k + 1])
          /\ BackendRoles[k] = BackendRoles[k + 1] => BackendRoles[k] = "fix"
    /\ (stage \notin {"idle", "start"} /\ BackendCalls("summarize") = <<>>) =>
          /\ session.summary = sessionFile.summary
          /\ EventsOf("save") = <<>>
    /\ stage \in {"save", "done"} =>
          /\ Len(BackendCalls("summarize")) = 1
          /\ session.summary \in SummaryTexts
          /\ \A k \in 1..Len(events) :
                events[k].kind \in {"patch", "command"} \/ events[k].what \in {"review", "fix"}
                    => k < SummarizeAt
          /\ \A k \in 1..Len(events) : events[k].kind = "save" => k > SummarizeAt
          /\ Len(EventsOf("save")) = (IF stage = "done" THEN 1 ELSE 0)
    /\ stage = "done" => sessionFile.summary = session.summary

\* C22 witness: a code.change run on an existing session, with a review fix
\* and a fix inside verifyCommands, has ended and saved the new summary.
C22_Witness ==
    /\ stage = "done"
    /\ taskType = Type_code_change
    /\ EarlierEntries = PriorHistory
    /\ Len(BackendCalls("fix")) >= 2
    /\ sessionFile.summary \in SummaryTexts

\* C24: the session file changes only in the step that ends a run with
\* success; a run that has not ended, or has ended with a failure, leaves the
\* file as it was, with none of the run's entries in it, whatever patches it
\* has applied.
C24_FileWrittenOnlyOnSuccess ==
    [][/\ stage' # "done" => sessionFile' = sessionFile
       /\ (stage' = "failed" /\ stage # "idle") =>
             /\ \A k \in 1..Len(sessionFile'.history) :
                   sessionFile'.history[k].run = "earlier"
             /\ Len(session'.history) > Len(sessionFile'.history)
             /\ EventsOf("save")' = <<>>]_vars

\* C24 witness: a run on an existing session failed after a patch had been
\* applied to the working tree, and the session file is the earlier one.
C24_Witness ==
    /\ stage = "failed"
    /\ workTree # {}
    /\ sessionFile = PriorFile
    /\ Len(ThisRunEntries) >= 5

-----------------------------------------------------------------------------
(* SpecRead: one readFilesSafe call on every short list of paths *)

MaxReadFiles == 3

\* readable, differently spelled, sensitive, ignored, outside and missing paths
ReadPaths == {
    Path(<<Str_src, Str_a_ts>>),
    Path(<<Str_dot, Str_src, Str_a_ts>>),
    Str_env_local,
    Path(<<Str_node_modules, Str_a_ts>>),
    Path(<<Str_dotdot, Str_a_ts>>),
    Path(<<Str_src, Str_gone_ts>>) }

InitRead ==
    /\ readRequest \in UNION { [1..n -> ReadPaths] : n \in 0..MaxReadFiles }
    /\ readResult = [state |-> "none", error |-> "none", keys |-> {}]
    /\ PatchIdle
    /\ PathIdle
    /\ VerifyIdle
    /\ RunIdle
    /\ MapIdle
    /\ RaceIdle

ReadFilesSafe ==
    /\ readResult.state = "none"
    /\ readResult' = readFilesSafe(VerifyRoot, readRequest)
    /\ UNCHANGED <<readRequest, patchVars, pathVars, verifyVars, runVars, mapVars,
                   raceVars>>

NextRead == ReadFilesSafe

SpecRead == InitRead /\ [][NextRead]_vars

(* Claims about readFilesSafe, checked under SpecRead *)

\* the path passes the Safety Boundary
PassesBoundary(f) == resolveSafePath(VerifyRoot, f).state = "returned"

\* C21: readFilesSafe raises and returns no mapping as soon as one requested
\* path, at any position, fails the Safety Boundary; a call that returns has
\* exactly the distinct requested strings as its keys (not their resolved
\* paths), and it returns when every path passes and can be read.
C21_FailFastOriginalKeys ==
    readResult.state # "none" =>
        /\ (\E k \in 1..Len(readRequest) : ~PassesBoundary(readRequest[k])) =>
              (readResult.state = "threw" /\ readResult.keys = {})
        /\ readResult.state = "threw" => readResult.keys = {}
        /\ readResult.state = "returned" =>
              /\ readResult.keys = Range(readRequest)
              /\ Cardinality(readResult.keys) = Cardinality(Range(readRequest))
              /\ \A f \in readResult.keys : PassesBoundary(f)
        /\ (\A k \in 1..Len(readRequest) :
               /\ PassesBoundary(readRequest[k])
               /\ resolve(VerifyRoot, readRequest[k]) \in ExistingResolved)
              => readResult.state = "returned"

\* C21 witness: two spellings of one readable file followed by a sensitive path
\* raised and returned nothing.
C21_Witness ==
    /\ readRequest = <<Path(<<Str_src, Str_a_ts>>), Path(<<Str_dot, Str_src, Str_a_ts>>),
                       Str_env_local>>
    /\ readResult.state = "threw"
    /\ readResult.keys = {}

-----------------------------------------------------------------------------
(* SpecRace: two runs of a text task on the same root and session id *)

\* addEntry by run r
addEntryOf(sess, type, r) ==
    [sess EXCEPT !.history = Append(sess.history, Entry(type, r))]

\* the entries a text run adds after its task entry, each after an await
RaceStages == <<"classification", "plan", "retrieval", "output">>

\* the position after the entry of type t has been added
AfterStage(t) ==
    IF t = "output" THEN "summarize"
    ELSE RaceStages[1 + CHOOSE k \in 1..Len(RaceStages) : RaceStages[k] = t]

InitRace ==
    /\ raceFile \in {AbsentFile, PriorFile}
    /\ racePc = [r \in RaceRuns |-> "start"]
    /\ raceSession = [r \in RaceRuns |-> FreshSession]
    /\ PatchIdle
    /\ PathIdle
    /\ VerifyIdle
    /\ RunIdle
    /\ MapIdle
    /\ ReadIdle

RaceFrame == UNCHANGED <<patchVars, pathVars, verifyVars, runVars, mapVars, readVars>>

\* loadSession and the task entry of run r
RaceStart(r) ==
    /\ racePc[r] = "start"
    /\ raceSession' = [raceSession EXCEPT ![r] = addEntryOf(loadSession(raceFile), "task", r)]
    /\ racePc' = [racePc EXCEPT ![r] = "classification"]
    /\ UNCHANGED raceFile
    /\ RaceFrame

\* a stage of run r completes and adds its entry
RaceStage(r) ==
    /\ racePc[r] \in Range(RaceStages)
    /\ raceSession' = [raceSession EXCEPT ![r] = addEntryOf(raceSession[r], racePc[r], r)]
    /\ racePc' = [racePc EXCEPT ![r] = AfterStage(racePc[r])]
    /\ UNCHANGED raceFile
    /\ RaceFrame

\* a stage, the review or the summary of run r throws
RaceFail(r) ==
    /\ racePc[r] \in Range(RaceStages) \cup {"summarize"}
    /\ racePc' = [racePc EXCEPT ![r] = "failed"]
    /\ UNCHANGED <<raceFile, raceSession>>
    /\ RaceFrame

\* reviewText and refreshSessionSummary of run r
RaceSummarize(r) ==
    /\ racePc[r] = "summarize"
    /\ \E text \in SummaryTexts :
          raceSession' = [raceSession EXCEPT ![r] = [raceSession[r] EXCEPT !.summary = text]]
    /\ racePc' = [racePc EXCEPT ![r] = "save"]
    /\ UNCHANGED raceFile
    /\ RaceFrame

\* a variant of RaceSave that loads the file again and adds its own entries
RaceSave_Merges(r) ==
    /\ racePc[r] = "save"
    /\ raceFile' = [exists |-> TRUE,
                    history |-> raceFile.history \o
                        SelectSeq(raceSession[r].history, LAMBDA e : e.run = r),
                    summary |-> raceSession[r].summary]
    /\ racePc' = [racePc EXCEPT ![r] = "done"]
    /\ UNCHANGED raceSession
    /\ RaceFrame

\* saveSession of run r: the file becomes the run's record
RaceSave(r) ==
    /\ racePc[r] = "save"
    /\ raceFile' = saveSession(raceSession[r])
    /\ racePc' = [racePc EXCEPT ![r] = "done"]
    /\ UNCHANGED raceSession
    /\ RaceFrame

NextRace ==
    \E r \in RaceRuns :
        \/ RaceStart(r)
        \/ RaceStage(r)
        \/ RaceFail(r)
        \/ RaceSummarize(r)
        \/ RaceSave(r)

SpecRace == InitRace /\ [][NextRace]_vars

(* Claims about concurrent runs, checked under SpecRace *)

\* history h holds an entry written by run r
HasEntryOf(h, r) == \E k \in 1..Len(h) : h[k].run = r

BothDone == \A r \in RaceRuns : racePc[r] = "done"

\* C23: nothing locks or merges the session file: a run's record holds the
\* other run's entries only if it loaded the file after the other had saved,
\* and when both runs have succeeded the file is exactly the record of one of
\* them, so if both loaded before either saved the entries of one are lost.
C23_LastSaveWins ==
    /\ \A r \in RaceRuns : \A o \in RaceRuns \ {r} :
          HasEntryOf(raceSession[r].history, o) => racePc[o] = "done"
    /\ BothDone =>
          /\ \E r \in RaceRuns : /\ raceFile.history = raceSession[r].history
                                 /\ raceFile.summary = raceSession[r].summary
          /\ (\A r \in RaceRuns : \A o \in RaceRuns \ {r} :
                 ~HasEntryOf(raceSession[r].history, o))
                => \E r \in RaceRuns : ~HasEntryOf(raceFile.history, r)

\* C23 witness: both runs have succeeded and the saved history holds the five
\* entries of run B and none of run A.
C23_Witness ==
    /\ BothDone
    /\ Len(SelectSeq(raceFile.history, LAMBDA e : e.run = "B")) = 5
    /\ ~HasEntryOf(raceFile.history, "A")
    /\ HasEntryOf(raceSession["A"].history, "A")

====
